---------------------------- MODULE Spec2Model ----------------------------
(***************************************************************************)
(* EV/EBITDA explorer (src/main.py): the label tokenizer, the broad-sector *)
(* guess, the industry matcher, the formatting helpers and the Fetch Data  *)
(* run (prefilter, fetch loop, merge, refine, market-cap filter, display   *)
(* and CSV download).                                                      *)
(*                                                                         *)
(* Text is a TLA+ string; a character is a string of length 1.  The module *)
(* is ASCII: the em dash U+2014 of the Yahoo industry names is written "~" *)
(* and the multiplication sign U+00D7 of fmt_mult is written "x".          *)
(* The en dash U+2013 of the market-cap choices is written "-".            *)
(* Market caps are integers in millions of dollars (2e9 is 2000), multiples*)
(* are integers in tenths (12.3 is 123).                                   *)
(***************************************************************************)
EXTENDS Integers, Sequences, FiniteSets, TLC

VARIABLES
    industry_choice,  \* st.sidebar.selectbox("Select Industry", INDUSTRIES)
    cap_choice,       \* st.sidebar.radio("Market Cap Filter", ...)
    yahoo,            \* the quote provider's data, ticker -> record
    pc,               \* position in the script
    allowed_sectors,  \* guess_broad_sector(industry_choice)
    cand,             \* candidate companies after the prefilter
    tickers,          \* tickers to fetch
    bi,               \* the batch loop's index i
    rows,             \* the per-ticker results list
    outcome,          \* what the provider did at each fetch, ticker -> outcome
    merged,           \* cand left-joined with the fetched records
    needles,          \* industry_matcher(industry_choice)
    refined,          \* rows of merged kept by the stage-2 refine
    out,              \* rows after the market-cap filter, sorted
    warning,          \* st.warning was shown
    table,            \* what st.data_editor shows
    csv,              \* what st.download_button offers
    toks,             \* tokens(industry_choice)
    fx,               \* input of a formatting helper
    fres              \* result of a formatting helper

vars == <<industry_choice, cap_choice, yahoo, pc, allowed_sectors, cand, tickers,
          bi, rows, outcome, merged, needles, refined, out, warning, table, csv,
          toks, fx, fres>>

\* Python's None (and pandas' NaN, which the code never tells apart from it).
Null == [k |-> "null"]
Num(n) == [k |-> "num", v |-> n]
Str(s) == [k |-> "str", s |-> s]

---------------------------------------------------------------------------
\* Strings.  The helpers work on the tuple of a string's characters.

\* the characters of s
Chars(s) == [i \in 1..Len(s) |-> SubSeq(s, i, i)]

RECURSIVE Join(_)
\* "".join(cs)
Join(cs) == IF cs = <<>> THEN "" ELSE Head(cs) \o Join(Tail(cs))

UpperLetters == Chars("ABCDEFGHIJKLMNOPQRSTUVWXYZ")
LowerLetters == Chars("abcdefghijklmnopqrstuvwxyz")

\* str.lower() of one character
LowerChar(c) ==
    IF \E i \in 1..26 : UpperLetters[i] = c
    THEN LowerLetters[CHOOSE i \in 1..26 : UpperLetters[i] = c]
    ELSE c

\* str.lower(), on characters
LowerChars(cs) == [i \in 1..Len(cs) |-> LowerChar(cs[i])]

\* str.lower()
LowerCase(s) == Join(LowerChars(Chars(s)))

RECURSIVE ReplaceChar(_, _, _)
\* str.replace(c, r) for a one-character c, on characters
ReplaceChar(cs, c, r) ==
    IF cs = <<>> THEN <<>>
    ELSE (IF Head(cs) = c THEN r ELSE <<Head(cs)>>) \o ReplaceChar(Tail(cs), c, r)

RECURSIVE SplitFrom(_, _, _)
SplitFrom(cs, cur, acc) ==
    IF cs = <<>> THEN (IF cur = <<>> THEN acc ELSE Append(acc, Join(cur)))
    ELSE IF Head(cs) = " "
         THEN SplitFrom(Tail(cs), <<>>, IF cur = <<>> THEN acc ELSE Append(acc, Join(cur)))
         ELSE SplitFrom(Tail(cs), Append(cur, Head(cs)), acc)

\* str.split(), on characters: the maximal runs of non-blank characters
Split(cs) == SplitFrom(cs, <<>>, <<>>)

\* str.strip()
Strip(s) ==
    LET cs == Chars(s)
        keep == {i \in 1..Len(cs) : cs[i] # " "}
    IN  IF keep = {} THEN ""
        ELSE SubSeq(s, CHOOSE i \in keep : \A j \in keep : i <= j,
                       CHOOSE i \in keep : \A j \in keep : i >= j)

\* sub in s
Contains(s, sub) ==
    LET cs == Chars(s)
        ps == Chars(sub)
    IN  \E off \in 0..(Len(cs) - Len(ps)) : \A j \in 1..Len(ps) : ps[j] = cs[off + j]

\* re.search(p, s) for a pattern of literal characters and ".", which is what
\* Series.str.contains(p) computes (its regex parameter defaults to True).
RegexSearch(p, s) ==
    LET cs == Chars(s)
        ps == Chars(p)
    IN  \E off \in 0..(Len(cs) - Len(ps)) :
            \A j \in 1..Len(ps) : ps[j] = "." \/ ps[j] = cs[off + j]

---------------------------------------------------------------------------
\* Helpers for matching

STOP == {"and", "services", "service", "general", "other", "lines", "line",
         "systems", "application", "apps"}

SYN == { <<"drugs", "drug">>, <<"pharmaceuticals", "pharmaceutical">>,
         <<"pharma", "pharmaceutical">>,
         <<"telecom.", "telecom">>, <<"telecommunication", "telecom">>,
         <<"semiconductors", "semiconductor">>, <<"internet", "internet">>,
         <<"equipment", "equipment">>, <<"utilities", "utility">>, <<"banks", "bank">>,
         <<"minerals", "mining">>, <<"metals", "metal">>, <<"materials", "material">>,
         <<"restaurants", "restaurant">>, <<"distributors", "distributor">>,
         <<"wholesale", "wholesale">>,
         <<"retailers", "retail">>, <<"beverages", "beverage">> }

\* SYN.get(w, w)
SynGet(w) ==
    IF \E p \in SYN : p[1] = w THEN (CHOOSE p \in SYN : p[1] = w)[2] ELSE w

RECURSIVE KeepWords(_)
\* [SYN.get(w, w) for w in ws if len(w) > 2 and w not in STOP]
KeepWords(ws) ==
    IF ws = <<>> THEN <<>>
    ELSE IF Len(Head(ws)) > 2 /\ Head(ws) \notin STOP
         THEN <<SynGet(Head(ws))>> \o KeepWords(Tail(ws))
         ELSE KeepWords(Tail(ws))

RECURSIVE Dedup(_, _, _)
\* the "consolidate duplicates" loop
Dedup(ws, seen, acc) ==
    IF ws = <<>> THEN acc
    ELSE IF Head(ws) \in seen
         THEN Dedup(Tail(ws), seen, acc)
         ELSE Dedup(Tail(ws), seen \cup {Head(ws)}, Append(acc, Head(ws)))

\* label.lower().replace("&"," and ").replace("/"," ").replace("("," ")
\*      .replace(")"," ").replace(",", " "), on characters
TokensText(label) ==
    ReplaceChar(ReplaceChar(ReplaceChar(ReplaceChar(ReplaceChar(
        LowerChars(Chars(label)), "&", Chars(" and ")), "/", <<" ">>), "(", <<" ">>),
        ")", <<" ">>), ",", <<" ">>)

\* the comprehension with its filter lost
tokens_keep_stop(label) ==
    LET ws == Split(TokensText(label))
    IN  Dedup([i \in 1..Len(ws) |-> SynGet(ws[i])], {}, <<>>)

tokens(label) == Dedup(KeepWords(Split(TokensText(label))), {}, <<>>)

\* The rules of guess_broad_sector in order: <<keywords, sector>>.
SectorRules == <<
    <<{"telecom"}, "communication services">>,
    <<{"advertis", "media", "broadcast", "publishing"}, "communication services">>,
    <<{"software", "semiconductor", "computer", "internet", "communication equipment",
       "peripherals"}, "information technology">>,
    <<{"pharma", "drug", "biotech", "medical", "health"}, "health care">>,
    <<{"retail", "hotel", "leisure", "auto", "restaurant", "entertainment",
       "homebuilding", "apparel", "recreation", "distributor"}, "consumer discretionary">>,
    <<{"beverage", "food", "grocery", "household", "tobacco", "staple"}, "consumer staples">>,
    <<{"bank", "insurance", "capital markets", "broker"}, "financials">>,
    <<{"reit", "real estate"}, "real estate">>,
    <<{"oil", "gas", "energy", "coal"}, "energy">>,
    <<{"chem", "steel", "metal", "mining", "paper", "packag", "building material",
       "construction materials"}, "materials">>,
    <<{"aerospace", "defense", "industrial", "transport", "airline", "railroad",
       "trucking", "marine", "ship"}, "industrials">>,
    <<{"utility", "electric", "water"}, "utilities">> >>

\* def has(*ws): any((" " + w.lower() + " ") in t for w in ws)
has(t, ws) == \E w \in ws : Contains(t, " " \o LowerCase(w) \o " ")

\* guess_broad_sector; the list of one sector of the first rule that has a
\* keyword, and <<>> for None (the function returns no empty list).
guess_broad_sector(industry_label) ==
    LET t == " " \o LowerCase(industry_label) \o " "
        hit == {r \in 1..Len(SectorRules) : has(t, SectorRules[r][1])}
    IN  IF hit = {} THEN <<>>
        ELSE <<SectorRules[CHOOSE r \in hit : \A q \in hit : r <= q][2]>>

SPECIAL == {
    <<"advertising", <<"advertising agencies">> >>,
    <<"pharmaceutical", <<"drug manufacturers", "pharmaceuticals">> >>,
    <<"biotechnology", <<"biotechnology">> >>,
    <<"semiconductor", <<"semiconductors", "semiconductor equipment">> >>,
    <<"telecom", <<"telecom services", "telecommunications services",
                   "wireless telecommunications services">> >>,
    <<"communication", <<"communication equipment">> >>,
    <<"software", <<"software~application", "software~infrastructure", "systems software",
                    "application software", "software">> >>,
    <<"reit", <<"reit">> >>,
    <<"banks", <<"banks">> >>,
    <<"insurance", <<"insurance">> >>,
    <<"utility", <<"utilities">> >>,
    <<"steel", <<"steel">> >>,
    <<"mining", <<"metals & mining", "other industrial metals & mining", "gold", "silver",
                  "copper">> >>,
    <<"oil", <<"oil & gas", "oil & gas e&p", "oil & gas integrated",
               "oil & gas refining & marketing", "oil & gas equipment & services">> >>,
    <<"internet", <<"internet content & information", "internet retail">> >>,
    <<"retail", <<"specialty retail", "department stores", "apparel retail", "grocery stores",
                  "drug retailers", "discount stores", "internet retail">> >>,
    <<"medical", <<"medical devices", "medical instruments & supplies",
                   "diagnostic & research", "healthcare equipment">> >>,
    <<"health", <<"healthcare providers & services", "healthcare plans",
                  "medical care facilities", "health information services",
                  "managed healthcare">> >>,
    <<"aerospace", <<"aerospace & defense">> >>,
    <<"transportation", <<"airlines", "railroads", "trucking", "marine", "transportation">> >>,
    <<"chemicals", <<"chemicals">> >>,
    <<"construction", <<"building materials", "engineering & construction">> >>,
    <<"beverage", <<"beverages~non-alcoholic", "beverages~wineries & distilleries",
                    "beverages~brewers">> >>,
    <<"food", <<"packaged foods & meats", "farm products">> >>,
    <<"household", <<"household & personal products">> >>,
    <<"tobacco", <<"tobacco">> >>,
    <<"paper", <<"paper & forest products">> >>,
    <<"packag", <<"packaging & containers">> >> }

\* w in SPECIAL
InSpecial(w) == \E p \in SPECIAL : p[1] = w

\* [n.lower() for n in SPECIAL[w]], as a set
SpecialNeedles(w) ==
    LET ns == (CHOOSE p \in SPECIAL : p[1] = w)[2]
    IN  {LowerCase(ns[i]) : i \in 1..Len(ns)}

RECURSIVE MatcherLoopBoth(_, _)
\* the loop with the raw token added next to its SPECIAL needles
MatcherLoopBoth(ws, acc) ==
    IF ws = <<>> THEN acc
    ELSE MatcherLoopBoth(Tail(ws),
            IF InSpecial(Head(ws)) THEN acc \cup SpecialNeedles(Head(ws)) \cup {Head(ws)}
            ELSE acc \cup {Head(ws)})

RECURSIVE MatcherLoop(_, _)
\* for w in toks: needles.update(SPECIAL[w]) if w in SPECIAL else needles.add(w)
MatcherLoop(ws, acc) ==
    IF ws = <<>> THEN acc
    ELSE MatcherLoop(Tail(ws),
            IF InSpecial(Head(ws)) THEN acc \cup SpecialNeedles(Head(ws))
            ELSE acc \cup {Head(ws)})

\* industry_matcher; the returned list has no order of its own (list(set)),
\* and its one caller turns it back into a set
industry_matcher(industry_label) == MatcherLoop(tokens(industry_label), {})

---------------------------------------------------------------------------
\* Labels the helpers are applied to: up to MaxWords words of WordPool joined
\* by the separators of SepPool (next to the labels of the reference table).

MaxWords == 2

WordPool == {"Telecom.", "Equipment", "Banks", "Pharma", "of", "(Svcs.)"}

SepPool == {" ", "/", " & ", ", "}

RECURSIVE LabelsOf(_)
LabelsOf(n) ==
    IF n = 1 THEN WordPool
    ELSE LabelsOf(n - 1) \cup
         {l \o s \o w : l \in LabelsOf(n - 1), s \in SepPool, w \in WordPool}

PoolLabels == LabelsOf(MaxWords)

---------------------------------------------------------------------------
\* The reference table: rows of damodaran_industries(), <<Industry, Sector
\* EV/EBITDA in tenths>>, a sample of the remote page.
damo == <<
    <<"Bank (Money Center)", 87>>,
    <<"Banks (Regional)", 92>>,
    <<"Insurance (Life)", 104>>,
    <<"Oilfield Svcs/Equip.", 71>>,
    <<"Telecom. Equipment", 123>>,
    <<"Utility (General)", 131>> >>

INDUSTRIES == {damo[i][1] : i \in 1..Len(damo)}

\* float(damo.loc[damo["Industry"] == industry_choice, "Sector EV/EBITDA"].iloc[0])
industry_multiple(choice) ==
    damo[CHOOSE i \in 1..Len(damo) :
            damo[i][1] = choice /\ \A j \in 1..(i - 1) : damo[j][1] # choice][2]

CapChoices == {"Show All Companies", "Small Cap (<$2B)", "Mid Cap ($2B-$10B)",
               "Large Cap ($10B-$50B)", "Mega Cap ($50B-$200B)", "Ultra Cap (>$200B)"}

---------------------------------------------------------------------------
\* The helpers applied to a label

\* the variables of a run before it starts
Untouched ==
    /\ allowed_sectors = <<>>
    /\ cand = <<>>
    /\ tickers = <<>>
    /\ bi = 0
    /\ rows = <<>>
    /\ outcome = <<>>
    /\ merged = <<>>
    /\ needles = {}
    /\ refined = <<>>
    /\ out = <<>>
    /\ warning = FALSE
    /\ table = Null
    /\ csv = Null
    /\ toks = <<>>
    /\ fx = Null
    /\ fres = Null

InitLabel ==
    /\ industry_choice \in PoolLabels \cup INDUSTRIES
    /\ cap_choice = "Ultra Cap (>$200B)"
    /\ yahoo = <<>>
    /\ pc = "label"
    /\ Untouched

TokensStep ==
    /\ pc = "label"
    /\ toks' = tokens(industry_choice)
    /\ pc' = "tokens"
    /\ UNCHANGED <<industry_choice, cap_choice, yahoo, allowed_sectors, cand, tickers,
                   bi, rows, outcome, merged, needles, refined, out, warning, table,
                   csv, fx, fres>>

MatcherStep ==
    /\ pc = "tokens"
    /\ needles' = industry_matcher(industry_choice)
    /\ pc' = "needles"
    /\ UNCHANGED <<industry_choice, cap_choice, yahoo, allowed_sectors, cand, tickers,
                   bi, rows, outcome, merged, refined, out, warning, table,
                   csv, toks, fx, fres>>

GuessStep ==
    /\ pc = "needles"
    /\ allowed_sectors' = guess_broad_sector(industry_choice)
    /\ pc' = "guessed"
    /\ UNCHANGED <<industry_choice, cap_choice, yahoo, cand, tickers,
                   bi, rows, outcome, merged, needles, refined, out, warning, table,
                   csv, toks, fx, fres>>

NextLabel == TokensStep \/ MatcherStep \/ GuessStep

SpecLabel == InitLabel /\ [][NextLabel]_vars

---------------------------------------------------------------------------
\* Formatting helpers

Digits == Chars("0123456789")

RECURSIVE NatStr(_)
\* the decimal digits of a natural number
NatStr(n) ==
    IF n < 10 THEN Digits[n + 1]
    ELSE NatStr(n \div 10) \o Digits[(n % 10) + 1]

IntStr(n) == IF n < 0 THEN "-" \o NatStr(0 - n) ELSE NatStr(n)

\* f"{h/100:.2f}" for h hundredths, h >= 0
Fixed2(h) ==
    NatStr(h \div 100) \o "." \o Digits[((h % 100) \div 10) + 1]
                       \o Digits[(h % 10) + 1]

\* f"{t/10:.1f}" for t tenths
Fixed1(t) ==
    LET a == IF t < 0 THEN 0 - t ELSE t
    IN  (IF t < 0 THEN "-" ELSE "") \o NatStr(a \div 10) \o "." \o Digits[(a % 10) + 1]

\* the strings float() takes among the inputs of the model: strings of digits
\* (signs, decimal points and exponents are not among them)
IsNumeral(s) ==
    /\ s # ""
    /\ \A i \in 1..Len(s) : \E d \in 1..10 : Digits[d] = Chars(s)[i]

RECURSIVE ParseNat(_)
ParseNat(s) ==
    IF s = "" THEN 0
    ELSE 10 * ParseNat(SubSeq(s, 1, Len(s) - 1))
         + ((CHOOSE d \in 1..10 : Digits[d] = Chars(s)[Len(s)]) - 1)

\* pd.isna(x)
isna(x) == x = Null

\* whether float(x) raises ValueError
FloatRaises(x) == x.k = "str" /\ ~IsNumeral(x.s)

Raised == [k |-> "raise", exc |-> "ValueError"]

\* fmt_mcap.  A number is a count of millions of dollars; a numeral string
\* is a count of dollars and is below one million in the model, so that it
\* takes the last branch.  .2f rounds a tie by the binary value of the
\* quotient; the caps of the model are on no tie.
fmt_mcap(x) ==
    IF isna(x) THEN Str("N/A")
    ELSE IF FloatRaises(x) THEN Str("N/A")
    ELSE IF x.k = "str" THEN Str(IntStr(ParseNat(x.s)))
    ELSE IF x.v >= 1000000 THEN Str(Fixed2((x.v + 5000) \div 10000) \o "T")
    ELSE IF x.v >= 1000 THEN Str(Fixed2((x.v + 5) \div 10) \o "B")
    ELSE IF x.v >= 1 THEN Str(Fixed2(x.v * 100) \o "M")
    ELSE IF x.v = 0 THEN Str("0")
    ELSE Str(IntStr(x.v) \o "000000")

\* fmt_mult.  A number is a count of tenths; float() of a numeral string is
\* a whole number.
fmt_mult(x) ==
    IF isna(x) THEN Str("N/A")
    ELSE IF FloatRaises(x) THEN Raised
    ELSE IF x.k = "str" THEN Str(Fixed1(10 * ParseNat(x.s)) \o "x")
    ELSE Str(Fixed1(x.v) \o "x")

\* Inputs of the formatting helpers
FmtNumbers ==
    (-3..40) \cup {123, 999, 1000, 1004, 1500, 1999, 2000, 9999, 10000, 49999, 50000,
                   199999, 200000, 999994, 1000000, 1500000, 2340000}

FmtStrings == {"", "abc", "N/A", "12abc", "--", "7", "42", "999"}

FmtInputs == {Null} \cup {Num(n) : n \in FmtNumbers} \cup {Str(s) : s \in FmtStrings}

InitFmt ==
    /\ industry_choice = "Telecom. Equipment"
    /\ cap_choice = "Ultra Cap (>$200B)"
    /\ yahoo = <<>>
    /\ pc = "fmt"
    /\ allowed_sectors = <<>>
    /\ cand = <<>>
    /\ tickers = <<>>
    /\ bi = 0
    /\ rows = <<>>
    /\ outcome = <<>>
    /\ merged = <<>>
    /\ needles = {}
    /\ refined = <<>>
    /\ out = <<>>
    /\ warning = FALSE
    /\ table = Null
    /\ csv = Null
    /\ toks = <<>>
    /\ fx \in FmtInputs
    /\ fres = Null

FmtMcapStep ==
    /\ pc = "fmt"
    /\ fres' = fmt_mcap(fx)
    /\ pc' = "fmt_mcap"
    /\ UNCHANGED <<industry_choice, cap_choice, yahoo, allowed_sectors, cand, tickers,
                   bi, rows, outcome, merged, needles, refined, out, warning, table,
                   csv, toks, fx>>

FmtMultStep ==
    /\ pc = "fmt"
    /\ fres' = fmt_mult(fx)
    /\ pc' = "fmt_mult"
    /\ UNCHANGED <<industry_choice, cap_choice, yahoo, allowed_sectors, cand, tickers,
                   bi, rows, outcome, merged, needles, refined, out, warning, table,
                   csv, toks, fx>>

NextFmt == FmtMcapStep \/ FmtMultStep

SpecFmt == InitFmt /\ [][NextFmt]_vars

---------------------------------------------------------------------------
\* The company universe and the quote provider

\* companies: rows of companies_list after dropna, a sample of the universe
\* (the ticker is its key).  lc_sector is Sector lowercased.
companies == <<
    [Name |-> "Cisco Systems", Ticker |-> "CSCO", Sector |-> "Information Technology"],
    [Name |-> "Schlumberger", Ticker |-> "SLB", Sector |-> "Energy"],
    [Name |-> "JPMorgan Chase", Ticker |-> "JPM", Sector |-> "Financials"],
    [Name |-> "MetLife", Ticker |-> "MET", Sector |-> "Financials"],
    [Name |-> "First Regional Bancorp", Ticker |-> "FRB", Sector |-> "Financials"],
    [Name |-> "Prudential Financial", Ticker |-> "PRU", Sector |-> "Financials"] >>

Tickers == {companies[i].Ticker : i \in 1..Len(companies)}

\* What the quote provider holds per ticker: info["marketCap"] (which is
\* fast_info.market_cap too), info["enterpriseToEbitda"], info["industry"].
YahooData ==
    [t \in Tickers |->
        CASE t = "CSCO" -> [marketCap |-> Num(220000), ev |-> Num(150),
                            industry |-> Str("Communication Equipment")]
          [] t = "SLB"  -> [marketCap |-> Num(60000), ev |-> Num(80),
                            industry |-> Str("Oil & Gas Equipment & Services")]
          [] t = "JPM"  -> [marketCap |-> Num(500000), ev |-> Null,
                            industry |-> Str("Banks~Diversified")]
          [] t = "MET"  -> [marketCap |-> Num(50000), ev |-> Num(-12),
                            industry |-> Str(" Insurance~Life ")]
          [] t = "FRB"  -> [marketCap |-> Null, ev |-> Null, industry |-> Str("")]
          [] t = "PRU"  -> [marketCap |-> Num(40000), ev |-> Num(95),
                            industry |-> Str("Insurance~Life")]]

\* What the provider does during one fetch_financials call: yf.Ticker(ticker)
\* raises or not; t.fast_info raises, has no market cap, or has it; t.info
\* raises or not.
Outcomes ==
    {[ctor |-> "raise", fast |-> "raise", info |-> "raise"]} \cup
    {[ctor |-> "ok", fast |-> f, info |-> i] :
        f \in {"raise", "none", "ok"}, i \in {"raise", "ok"}}

OkOutcome == [ctor |-> "ok", fast |-> "ok", info |-> "ok"]

NoInfo == [marketCap |-> Null, ev |-> Null, industry |-> Null]

\* (info.get("industry") or "").strip() or None
StripOrNone(x) ==
    IF x = Null THEN Null
    ELSE IF Strip(x.s) = "" THEN Null ELSE Str(Strip(x.s))

\* fetch_financials without the fallback to info["marketCap"]
fetch_financials_no_fallback(ticker, o, y) ==
    IF o.ctor = "raise"
    THEN [Ticker |-> ticker, mcap_num |-> Null, ev |-> Null, yf_industry |-> Null]
    ELSE LET info == IF o.info = "ok" THEN y ELSE NoInfo
         IN  [Ticker |-> ticker,
              mcap_num |-> IF o.fast = "ok" THEN y.marketCap ELSE Null,
              ev |-> info.ev,
              yf_industry |-> StripOrNone(info.industry)]

\* fetch_financials(ticker) when the provider holds y and behaves as o
fetch_financials(ticker, o, y) ==
    IF o.ctor = "raise"
    THEN [Ticker |-> ticker, mcap_num |-> Null, ev |-> Null, yf_industry |-> Null]
    ELSE LET fast == IF o.fast = "ok" THEN y.marketCap ELSE Null
             info == IF o.info = "ok" THEN y ELSE NoInfo
             mcap == IF fast = Null THEN info.marketCap ELSE fast
         IN  [Ticker |-> ticker,
              mcap_num |-> mcap,
              ev |-> info.ev,
              yf_industry |-> StripOrNone(info.industry)]

---------------------------------------------------------------------------
\* The Fetch Data run

\* MAX_FETCH with and without a guessed sector, and BATCH, scaled to the
\* sample universe (1200, 800 and 50 in the source).
MAX_FETCH_SECTOR == 3
MAX_FETCH_ALL == 2
BATCH == 2

MAX_FETCH(allowed) == IF allowed # <<>> THEN MAX_FETCH_SECTOR ELSE MAX_FETCH_ALL

lc_sector(c) == LowerCase(c.Sector)

\* the prefilter: cand[mask_sector] when a sector was guessed, else every company
Prefilter(allowed) ==
    IF allowed # <<>>
    THEN SelectSeq(companies,
                   LAMBDA c : \E i \in 1..Len(allowed) : RegexSearch(allowed[i], lc_sector(c)))
    ELSE companies

RECURSIVE Unique(_, _)
\* Series.unique(): first occurrences, in order
Unique(ts, acc) ==
    IF ts = <<>> THEN acc
    ELSE Unique(Tail(ts),
                IF \E i \in 1..Len(acc) : acc[i] = Head(ts) THEN acc ELSE Append(acc, Head(ts)))

Min(a, b) == IF a < b THEN a ELSE b

\* cand["Ticker"].dropna().unique().tolist()[:MAX_FETCH]
TickerList(cnd, allowed) ==
    LET u == Unique([i \in 1..Len(cnd) |-> cnd[i].Ticker], <<>>)
    IN  SubSeq(u, 1, Min(Len(u), MAX_FETCH(allowed)))

\* cand.merge(fin, on="Ticker", how="left")
Merge(cnd, rws) ==
    [i \in 1..Len(cnd) |->
        LET hit == {j \in 1..Len(rws) : rws[j].Ticker = cnd[i].Ticker}
            r == IF hit = {}
                 THEN [mcap_num |-> Null, ev |-> Null, yf_industry |-> Null]
                 ELSE rws[CHOOSE j \in hit : TRUE]
        IN  [Name |-> cnd[i].Name, Ticker |-> cnd[i].Ticker, Sector |-> cnd[i].Sector,
             mcap_num |-> r.mcap_num, ev |-> r.ev, yf_industry |-> r.yf_industry]]

\* z["yf_industry"].fillna("").str.lower()
yf_industry_lc(r) == IF r.yf_industry = Null THEN "" ELSE LowerCase(r.yf_industry.s)

\* z[mask_yf]: mask_yf |= z["yf_industry_lc"].str.contains(p, na=False)
Refine(mrg, ndl) ==
    SelectSeq(mrg, LAMBDA r : \E p \in ndl : RegexSearch(p, yf_industry_lc(r)))

\* refined.empty with the check lost
refined_empty_never(r) == FALSE

\* refined.empty
refined_empty(r) == r = <<>>

Cap2B == 2000
Cap10B == 10000
Cap50B == 50000
Cap200B == 200000

\* a comparison of a column entry with a number: False on a null
Lt(c, n) == c # Null /\ c.v < n
Ge(c, n) == c # Null /\ c.v >= n

\* the mask with every upper bound inclusive
InBucketInclusive(c, choice) ==
    CASE choice = "Small Cap (<$2B)" -> c # Null /\ c.v <= Cap2B
      [] choice = "Mid Cap ($2B-$10B)" -> Ge(c, Cap2B) /\ c.v <= Cap10B
      [] choice = "Large Cap ($10B-$50B)" -> Ge(c, Cap10B) /\ c.v <= Cap50B
      [] choice = "Mega Cap ($50B-$200B)" -> Ge(c, Cap50B) /\ c.v <= Cap200B
      [] choice = "Ultra Cap (>$200B)" -> c # Null /\ c.v > Cap200B
      [] OTHER -> TRUE

\* the mask of the if/elif chain on cap_choice
InBucket(c, choice) ==
    CASE choice = "Small Cap (<$2B)" -> Lt(c, Cap2B)
      [] choice = "Mid Cap ($2B-$10B)" -> Ge(c, Cap2B) /\ Lt(c, Cap10B)
      [] choice = "Large Cap ($10B-$50B)" -> Ge(c, Cap10B) /\ Lt(c, Cap50B)
      [] choice = "Mega Cap ($50B-$200B)" -> Ge(c, Cap50B) /\ Lt(c, Cap200B)
      [] choice = "Ultra Cap (>$200B)" -> Ge(c, Cap200B)
      [] OTHER -> TRUE

\* out = out[mask]
CapFilter(rfd, choice) == SelectSeq(rfd, LAMBDA r : InBucket(r.mcap_num, choice))

\* r may stand before q after sort_values("mcap_num", ascending=False,
\* na_position="last")
SortsBefore(r, q) ==
    \/ q.mcap_num = Null
    \/ r.mcap_num # Null /\ r.mcap_num.v >= q.mcap_num.v

\* the orders sort_values may leave the rows in (the sort is not stable)
Sorted(rs) ==
    {s \in [1..Len(rs) -> {rs[i] : i \in 1..Len(rs)}] :
        /\ \A i \in 1..Len(rs) : \E j \in 1..Len(rs) : s[j] = rs[i]
        /\ \A i, j \in 1..Len(rs) : i < j => SortsBefore(s[i], s[j])}

ViewColumns == <<"Company Name", "Ticker", "Sector", "Market Cap", "Company EV/EBITDA",
                 "YF Industry">>

\* a row of view: the formatted cells
ViewRow(r) ==
    <<Str(r.Name), Str(r.Ticker), Str(r.Sector), fmt_mcap(r.mcap_num), fmt_mult(r.ev),
      r.yf_industry>>

\* the text of a cell as st.data_editor shows it and as to_csv writes it: a
\* string as it is, a float by its repr
CellText(c) == IF c.k = "num" THEN Fixed1(c.v) ELSE IF c.k = "null" THEN "" ELSE c.s

\* view.assign(**{"Sector EV/EBITDA": v}), every cell as its text
Assigned(view, v) ==
    [columns |-> Append(ViewColumns, "Sector EV/EBITDA"),
     rows |-> [i \in 1..Len(view) |->
                  [j \in 1..(Len(ViewColumns) + 1) |-> CellText(Append(view[i], v)[j])]]]

HelperVars == <<toks, fx, fres>>

Init ==
    /\ industry_choice \in INDUSTRIES
    /\ cap_choice \in CapChoices
    /\ yahoo = YahooData
    /\ pc = "idle"
    /\ Untouched

\* if st.button("Fetch Data"): the prefilter and the ticker list
Click ==
    /\ pc = "idle"
    /\ allowed_sectors' = guess_broad_sector(industry_choice)
    /\ cand' = Prefilter(allowed_sectors')
    /\ tickers' = TickerList(cand', allowed_sectors')
    /\ rows' = <<>>
    /\ bi' = 0
    /\ pc' = IF tickers' = <<>> THEN "merge" ELSE "fetch"
    /\ UNCHANGED <<industry_choice, cap_choice, yahoo, outcome, merged, needles, refined,
                   out, warning, table, csv>>
    /\ UNCHANGED HelperVars

\* one round of "for i in range(0, len(tickers), BATCH)": the inner loop over
\* tickers[i:i+BATCH] and the break test; the provider behaves as one of Outs
\* at each call
FetchBatch(Outs) ==
    /\ pc = "fetch"
    /\ LET batch == SubSeq(tickers, bi + 1, Min(bi + BATCH, Len(tickers)))
       IN  \E os \in [1..Len(batch) -> Outs] :
              /\ rows' = rows \o [j \in 1..Len(batch) |->
                                    fetch_financials(batch[j], os[j], yahoo[batch[j]])]
              /\ outcome' = [t \in {batch[j] : j \in 1..Len(batch)} |->
                                os[CHOOSE j \in 1..Len(batch) : batch[j] = t]] @@ outcome
    /\ bi' = bi + BATCH
    /\ pc' = IF Len(rows') >= MAX_FETCH(allowed_sectors) \/ bi' >= Len(tickers)
             THEN "merge" ELSE "fetch"
    /\ UNCHANGED <<industry_choice, cap_choice, yahoo, allowed_sectors, cand, tickers,
                   merged, needles, refined, out, warning, table, csv>>
    /\ UNCHANGED HelperVars

\* fin = pd.DataFrame(rows); merged = cand.merge(fin, on="Ticker", how="left").
\* With no row fin has no Ticker column and merge raises KeyError.
MergeStep ==
    /\ pc = "merge"
    /\ IF rows = <<>>
       THEN /\ pc' = "error"
            /\ merged' = merged
       ELSE /\ pc' = "refine"
            /\ merged' = Merge(cand, rows)
    /\ UNCHANGED <<industry_choice, cap_choice, yahoo, allowed_sectors, cand, tickers, bi,
                   rows, outcome, needles, refined, out, warning, table, csv>>
    /\ UNCHANGED HelperVars

\* the strict refine by the provider's industry and the refined.empty check
RefineStep ==
    /\ pc = "refine"
    /\ needles' = industry_matcher(industry_choice)
    /\ refined' = Refine(merged, needles')
    /\ IF refined_empty(refined')
       THEN /\ warning' = TRUE
            /\ pc' = "stopped"
       ELSE /\ warning' = warning
            /\ pc' = "capfilter"
    /\ UNCHANGED <<industry_choice, cap_choice, yahoo, allowed_sectors, cand, tickers, bi,
                   rows, outcome, merged, out, table, csv>>
    /\ UNCHANGED HelperVars

\* the numeric market-cap filter
CapFilterStep ==
    /\ pc = "capfilter"
    /\ out' = CapFilter(refined, cap_choice)
    /\ pc' = "display"
    /\ UNCHANGED <<industry_choice, cap_choice, yahoo, allowed_sectors, cand, tickers, bi,
                   rows, outcome, merged, needles, refined, warning, table, csv>>
    /\ UNCHANGED HelperVars

\* sort, format, st.data_editor and st.download_button
DisplayStep ==
    /\ pc = "display"
    /\ \E s \in Sorted(out) :
          LET view == [i \in 1..Len(s) |-> ViewRow(s[i])]
              m == Num(industry_multiple(industry_choice))
          IN  /\ out' = s
              /\ table' = Assigned(view, fmt_mult(m))
              /\ csv' = Assigned(view, m)
    /\ pc' = "done"
    /\ UNCHANGED <<industry_choice, cap_choice, yahoo, allowed_sectors, cand, tickers, bi,
                   rows, outcome, merged, needles, refined, warning>>
    /\ UNCHANGED HelperVars

Next ==
    \/ Click
    \/ FetchBatch(Outcomes)
    \/ MergeStep
    \/ RefineStep
    \/ CapFilterStep
    \/ DisplayStep

Spec == Init /\ [][Next]_vars

---------------------------------------------------------------------------
\* The market-cap filter over the caps around every threshold: the run with
\* a provider that answers every call and holds caps of CapValues for the
\* two companies fetched without a prefilter.

CapValues == {Null} \cup {Num(n) : n \in {-1, 1999, 2000, 9999, 10000, 49999, 50000,
                                          199999, 200000}}

InitCap ==
    /\ industry_choice \in {"Telecom. Equipment", "Oilfield Svcs/Equip."}
    /\ cap_choice \in CapChoices
    /\ \E c1, c2 \in CapValues :
          yahoo = [YahooData EXCEPT !["CSCO"].marketCap = c1, !["SLB"].marketCap = c2]
    /\ pc = "idle"
    /\ Untouched

NextCap ==
    \/ Click
    \/ FetchBatch({OkOutcome})
    \/ MergeStep
    \/ RefineStep
    \/ CapFilterStep
    \/ DisplayStep

SpecCap == InitCap /\ [][NextCap]_vars

---------------------------------------------------------------------------
\* Properties

Range(s) == {s[i] : i \in 1..Len(s)}

AfterCapFilter == pc \in {"display", "done"}
AfterRefine == pc \in {"stopped", "capfilter", "display", "done"}
AfterFetch == pc \in {"merge", "error", "refine", "stopped", "capfilter", "display", "done"}

\* the membership of cap c in the bucket of choice b, by the ranges of the
\* market-cap buckets
Membership(c, b) ==
    \/ b = "Show All Companies"
    \/ b = "Small Cap (<$2B)" /\ c # Null /\ c.v < 2000
    \/ b = "Mid Cap ($2B-$10B)" /\ c # Null /\ 2000 <= c.v /\ c.v < 10000
    \/ b = "Large Cap ($10B-$50B)" /\ c # Null /\ 10000 <= c.v /\ c.v < 50000
    \/ b = "Mega Cap ($50B-$200B)" /\ c # Null /\ 50000 <= c.v /\ c.v < 200000
    \/ b = "Ultra Cap (>$200B)" /\ c # Null /\ c.v >= 200000

\* C1: after the market-cap filter, a refined row is kept exactly when its
\* cap lies in the half-open range of the chosen bucket (every row when the
\* choice is Show All Companies); a row with a null cap is kept only then.
C1_CapFilterMatchesRanges ==
    AfterCapFilter =>
        /\ Range(out) \subseteq Range(refined)
        /\ \A r \in Range(refined) :
              (r \in Range(out)) <=> Membership(r.mcap_num, cap_choice)
        /\ \A r \in Range(out) :
              r.mcap_num = Null => cap_choice = "Show All Companies"

\* C1 witness: a cap of exactly 2e9 kept by Mid Cap beside a cap of exactly
\* 10e9 dropped by it
C1_Witness ==
    /\ pc = "display"
    /\ cap_choice = "Mid Cap ($2B-$10B)"
    /\ \E r \in Range(out) : r.mcap_num = Num(2000)
    /\ \E r \in Range(refined) : r.mcap_num = Num(10000) /\ r \notin Range(out)

\* C2: when the stage-2 refine selects no row, the run ends at the warning
\* with no table and no CSV; a run that stopped shows neither.
C2_EmptyRefineStops ==
    /\ (AfterRefine /\ refined = <<>>) =>
           (pc = "stopped" /\ warning /\ table = Null /\ csv = Null)
    /\ pc = "stopped" => (table = Null /\ csv = Null)

\* C2 witness: candidates were fetched and merged, none matched, the run
\* stopped at the warning
C2_Witness ==
    /\ pc = "stopped"
    /\ warning
    /\ merged # <<>>
    /\ refined = <<>>

\* C3 (as claimed): a run that ends with an empty result has shown the
\* "no match" notice.
C3_EmptyResultWarns ==
    (pc = "done" /\ out = <<>>) => warning

\* fetch_financials raised at some point of the call
RaisedSomewhere(o) == o.ctor = "raise" \/ o.fast = "raise" \/ o.info = "raise"

AllNull(r) == r.mcap_num = Null /\ r.ev = Null /\ r.yf_industry = Null

\* C4 (as claimed): after the fetch loop every candidate ticker has a record
\* in rows, and the record of a ticker whose fetch raised at any point is
\* all null.
C4_EveryCandidateFetched ==
    AfterFetch =>
        \A i \in 1..Len(cand) :
            \E j \in 1..Len(rows) :
                /\ rows[j].Ticker = cand[i].Ticker
                /\ (cand[i].Ticker \in DOMAIN outcome
                    /\ RaisedSomewhere(outcome[cand[i].Ticker])) => AllNull(rows[j])

\* C4 (amended): after the fetch loop rows holds exactly one record for each
\* of the first MAX_FETCH candidate tickers, in order, whatever raised.  The
\* record is all null when yf.Ticker raised; when t.info raised its multiple
\* and industry are null and its cap is fast_info's (null when fast_info
\* raised or had none); when only fast_info raised the record is that of
\* t.info.
C4_FetchedPrefixIsolated ==
    AfterFetch =>
        /\ Len(rows) = Min(Len(cand), MAX_FETCH(allowed_sectors))
        /\ \A j \in 1..Len(rows) :
              LET t == cand[j].Ticker
                  o == outcome[t]
                  r == rows[j]
              IN  /\ r.Ticker = t
                  /\ o.ctor = "raise" => AllNull(r)
                  /\ (o.ctor = "ok" /\ o.info = "raise") =>
                        /\ r.ev = Null
                        /\ r.yf_industry = Null
                        /\ r.mcap_num = (IF o.fast = "ok" THEN yahoo[t].marketCap ELSE Null)
                  /\ (o.ctor = "ok" /\ o.fast = "raise" /\ o.info = "ok") =>
                        /\ r.ev = yahoo[t].ev
                        /\ r.mcap_num = yahoo[t].marketCap
                        /\ r.yf_industry = StripOrNone(yahoo[t].industry)

\* C4 witness: four candidates and three records; the first fetch failed at
\* yf.Ticker, the second at t.info after fast_info gave a cap, the third
\* at fast_info alone
C4_Witness ==
    /\ pc = "merge"
    /\ Len(cand) = 4
    /\ Len(rows) = 3
    /\ outcome[rows[1].Ticker].ctor = "raise"
    /\ outcome[rows[2].Ticker] = [ctor |-> "ok", fast |-> "ok", info |-> "raise"]
    /\ rows[2].mcap_num # Null
    /\ outcome[rows[3].Ticker] = [ctor |-> "ok", fast |-> "raise", info |-> "ok"]

\* C5 (as claimed): the provider industry of every row of the result,
\* lowercased, contains one of the needles of the chosen label.
C5_ResultContainsNeedle ==
    pc = "done" =>
        \A r \in Range(out) :
            /\ r.yf_industry # Null
            /\ \E n \in industry_matcher(industry_choice) : Contains(yf_industry_lc(r), n)

Punctuation == {"&", "/", "(", ")", ","}

HasChar(s, cs) == \E i \in 1..Len(s) : Chars(s)[i] \in cs

TokensDone == pc \in {"tokens", "needles", "guessed"}
MatcherDone == pc \in {"needles", "guessed"}

\* the words of the label the tokenizer keeps, before the SYN mapping
KeptWords(label) ==
    SelectSeq(Split(TokensText(label)), LAMBDA w : Len(w) > 2 /\ w \notin STOP)

\* what C6 says of every token but the punctuation
TokensClean ==
    /\ \A i \in 1..Len(toks) :
          /\ toks[i] # ""
          /\ Len(toks[i]) > 2
          /\ toks[i] \notin STOP
    /\ \A i, j \in 1..Len(toks) : toks[i] = toks[j] => i = j
    /\ industry_choice = "Telecom. Equipment" => toks = <<"telecom", "equipment">>

\* C6 (as claimed): no token is empty, of length <= 2, a stop word or a
\* repeat, none contains &, /, a parenthesis, a comma or a period, and
\* tokens("Telecom. Equipment") is telecom, equipment.
C6_TokensNoPunctuation ==
    TokensDone =>
        /\ TokensClean
        /\ \A i \in 1..Len(toks) : ~HasChar(toks[i], Punctuation \cup {"."})

\* C6 (amended): as claimed, but for the period: no token contains &, /, a
\* parenthesis, a comma or a blank, while a kept word with a period in it
\* is a token as it stands, period included, unless the word is "telecom.".
C6_TokensClean ==
    TokensDone =>
        /\ TokensClean
        /\ \A i \in 1..Len(toks) : ~HasChar(toks[i], Punctuation \cup {" "})
        /\ \A w \in Range(KeptWords(industry_choice)) :
              (HasChar(w, {"."}) /\ w # "telecom.") => w \in Range(toks)

\* C6 witness: a label tokenized, the period of "telecom." gone and the
\* period of "svcs." kept
C6_Witness ==
    /\ pc = "tokens"
    /\ industry_choice = "Telecom. (Svcs.)"
    /\ toks = <<"telecom", "svcs.">>

\* C7: the needles are the SPECIAL needles of the tokens that have an entry
\* together with the other tokens themselves; a label none of whose tokens
\* has an entry yields its tokens, and a label whose kept words are all
\* "pharma" yields drug manufacturers, pharmaceuticals.
C7_NeedlesAreUnion ==
    MatcherDone =>
        /\ \A n \in needles :
              \E w \in Range(toks) :
                  IF InSpecial(w) THEN n \in SpecialNeedles(w) ELSE n = w
        /\ \A w \in Range(toks) :
              IF InSpecial(w) THEN SpecialNeedles(w) \subseteq needles ELSE w \in needles
        /\ (\A w \in Range(toks) : ~InSpecial(w)) => needles = Range(toks)
        /\ Range(KeptWords(industry_choice)) = {"pharma"} =>
              needles = {"drug manufacturers", "pharmaceuticals"}

\* C7 witness: a label with the word pharma and a word without an entry
C7_Witness ==
    /\ pc = "needles"
    /\ industry_choice = "Pharma/Banks"
    /\ needles = {"drug manufacturers", "pharmaceuticals", "bank"}

\* a keyword of ws occurs in the text t
has_plain(t, ws) == \E w \in ws : Contains(t, LowerCase(w))

\* C8 (as claimed): a label that contains a keyword of guess_broad_sector
\* gets the sector of the first rule that lists a keyword it contains, and
\* no sector only when it contains none.
C8_KeywordGivesSector ==
    pc = "guessed" =>
        LET l == LowerCase(industry_choice)
            hit == {r \in 1..Len(SectorRules) : has_plain(l, SectorRules[r][1])}
        IN  IF hit = {} THEN allowed_sectors = <<>>
            ELSE allowed_sectors =
                    <<SectorRules[CHOOSE r \in hit : \A q \in hit : r <= q][2]>>

\* C9 (as claimed): each formatting helper returns a string, and "N/A" for
\* a null or an unparseable input.
C9_FormattersTotal ==
    pc \in {"fmt_mcap", "fmt_mult"} =>
        /\ fres.k = "str"
        /\ (isna(fx) \/ FloatRaises(fx)) => fres = Str("N/A")

\* C10 (as claimed): the CSV has the columns, the rows and, cell by cell,
\* the texts of the displayed table.
C10_CsvEqualsTable ==
    pc = "done" =>
        /\ csv.columns = table.columns
        /\ Len(csv.rows) = Len(table.rows)
        /\ \A i \in 1..Len(table.rows) : csv.rows[i] = table.rows[i]

====
